---- MODULE Spec2Model ----
(***************************************************************************)
(* pika/codec/decode.py: the AMQP field-value decoder.                     *)
(*                                                                         *)
(* The scalar decoders are pure operators on a byte view.  The tag         *)
(* dispatcher (_decode_value), the composite decoders (field_array,        *)
(* field_table) and the typed decoder (decode_by_type) call each other     *)
(* recursively and loop; they are a machine with an explicit call stack,   *)
(* one frame per active call, so that every loop iteration is a step.      *)
(*                                                                         *)
(* A buffer is a sequence of bytes 0..255 (a Python 2 str).  Every view    *)
(* the code passes down is a suffix of the buffer (value[1:],              *)
(* value[offset:]), so a frame holds the number of bytes dropped (base).   *)
(*                                                                         *)
(* Decoded values are tuples whose first element names the Python type:    *)
(*   <<"None">>  <<"bool", b>>  <<"int", n>>  <<"str", bytes>>             *)
(*   <<"list", seq>>  <<"dict", function>>  <<"Decimal", m, e>> ...        *)
(***************************************************************************)
EXTENDS Integers, Sequences, FiniteSets, TLC

VARIABLES buf, op, dtype, stack, status, err, result, iters

vars == <<buf, op, dtype, stack, status, err, result, iters>>

(***************************************************************************)
(* Bounds of the model.                                                    *)
(***************************************************************************)
\* loop iterations (field_array / field_table) followed in one decode call
MaxIter == 6
\* elements (array) or entries (table) in a generated composite body
MaxElems == 2
\* the declared length of a generated composite is the body's length +- Slack
Slack == 2
\* the most negative declared length generated is -MaxNeg
MaxNeg == 6

(***************************************************************************)
(* Python slicing and struct.unpack_from.                                  *)
(***************************************************************************)
Min(a, b) == IF a < b THEN a ELSE b

Max(a, b) == IF a > b THEN a ELSE b

\* a slice index clamped into 0..n, negative indices counting from the end
SliceIndex(n, i) == IF i < 0 THEN Max(n + i, 0) ELSE Min(i, n)

\* value[i:j]
PySlice(v, i, j) ==
  LET s == SliceIndex(Len(v), i)
      e == SliceIndex(Len(v), j)
  IN IF e <= s THEN <<>> ELSE SubSeq(v, s + 1, e)

\* the start of unpack_from(fmt, value, offset): a negative offset counts
\* from the end of the buffer
UnpackStart(v, offset) == IF offset < 0 THEN offset + Len(v) ELSE offset

\* unpack_from raises struct.error unless size bytes lie at the offset
UnpackOk(v, size, offset) ==
  /\ UnpackStart(v, offset) >= 0
  /\ Len(v) - UnpackStart(v, offset) >= size

\* the size bytes unpack_from reads
UnpackBytes(v, size, offset) ==
  SubSeq(v, UnpackStart(v, offset) + 1, UnpackStart(v, offset) + size)

\* '>B' / 'B'
U8(b) == b[1]

\* '>b'
S8(b) == IF b[1] >= 128 THEN b[1] - 256 ELSE b[1]

\* big-endian 16-bit unsigned
U16(b) == b[1] * 256 + b[2]

\* '>h'
S16(b) == S8(b) * 256 + b[2]

\* '>l' / '>i'
S32(b) == S8(b) * 16777216 + b[2] * 65536 + b[3] * 256 + b[4]

\* '>I'
U32(b) == b[1] * 16777216 + b[2] * 65536 + b[3] * 256 + b[4]

(***************************************************************************)
(* Decoded values.                                                         *)
(***************************************************************************)
PyNone == <<"None">>

PyBool(b) == <<"bool", b>>

PyInt(n) == <<"int", n>>

PyStr(s) == <<"str", s>>

PyList(s) == <<"list", s>>

PyDict(f) == <<"dict", f>>

\* the outcome of a call: a (consumed, value) pair or an exception
Ok(c, v) == <<"ok", c, v>>

Exc(e) == <<"raise", e>>

IsOk(r) == r[1] = "ok"

(***************************************************************************)
(* Scalar decoders: view -> Ok(consumed, value) or Exc(error).             *)
(***************************************************************************)
boolean(value) ==
  IF ~UnpackOk(value, 1, 0) THEN Exc("struct.error")
  ELSE Ok(1, PyBool(U8(UnpackBytes(value, 1, 0)) # 0))

\* Decimal(raw) * (Decimal(10) ** -decimals), as the pair (mantissa, exponent)
\* with the trailing zeros of the mantissa removed: Decimal equality is
\* numeric, Decimal('1.0') == Decimal('1')
RECURSIVE DecimalValue(_, _)
DecimalValue(raw, decimals) ==
  IF raw = 0 THEN <<"Decimal", 0, 0>>
  ELSE IF raw % 10 = 0 /\ decimals > 0 THEN DecimalValue(raw \div 10, decimals - 1)
  ELSE <<"Decimal", raw, -decimals>>

decimal(value) ==
  IF ~UnpackOk(value, 1, 0) \/ ~UnpackOk(value, 4, 1) THEN Exc("struct.error")
  ELSE Ok(5, DecimalValue(S32(UnpackBytes(value, 4, 1)), U8(UnpackBytes(value, 1, 0))))

\* an IEEE-754 single as its sign, biased exponent and fraction fields
FloatValue(b) ==
  <<"float", b[1] \div 128, (b[1] % 128) * 2 + b[2] \div 128,
    (b[2] % 128) * 65536 + b[3] * 256 + b[4]>>

floating_point(value) ==
  IF ~UnpackOk(value, 4, 0) THEN Exc("struct.error")
  ELSE Ok(4, FloatValue(UnpackBytes(value, 4, 0)))

long_int(value) ==
  IF ~UnpackOk(value, 4, 0) THEN Exc("struct.error")
  ELSE Ok(4, PyInt(S32(UnpackBytes(value, 4, 0))))

\* a 64-bit signed integer: an int when it fits 32 bits, else its signed high
\* word and the two 16-bit halves of its low word
Int64Value(b) ==
  LET hi  == S32(SubSeq(b, 1, 4))
      lo1 == U16(SubSeq(b, 5, 6))
      lo2 == U16(SubSeq(b, 7, 8))
  IN IF hi = 0 /\ lo1 < 32768 THEN PyInt(lo1 * 65536 + lo2)
     ELSE IF hi = -1 /\ lo1 >= 32768 THEN PyInt((lo1 - 65536) * 65536 + lo2)
     ELSE <<"int64", hi, lo1, lo2>>

long_long_int(value) ==
  IF ~UnpackOk(value, 8, 0) THEN Exc("struct.error")
  ELSE Ok(8, Int64Value(UnpackBytes(value, 8, 0)))

octet(value) ==
  IF ~UnpackOk(value, 1, 0) THEN Exc("struct.error")
  ELSE Ok(1, PyInt(S8(UnpackBytes(value, 1, 0))))

short_int(value) ==
  IF ~UnpackOk(value, 2, 0) THEN Exc("struct.error")
  ELSE Ok(2, PyInt(S16(UnpackBytes(value, 2, 0))))

short_string(value) ==
  IF ~UnpackOk(value, 1, 0) THEN Exc("struct.error")
  ELSE LET length == U8(UnpackBytes(value, 1, 0))
       IN Ok(length + 1, PyStr(PySlice(value, 1, length + 1)))

long_string(value) ==
  IF ~UnpackOk(value, 4, 0) THEN Exc("struct.error")
  ELSE LET length == U32(UnpackBytes(value, 4, 0))
       IN Ok(length + 4, PyStr(PySlice(value, 4, length + 4)))

\* time.gmtime(secs) for secs below 2^31: the day number since the epoch (the
\* calendar date is a function of it), the time of day and the day of the
\* week (tm_wday, Monday = 0; day 0 was a Thursday).  Larger values keep the
\* seconds as 16-bit digits; gmtime raises ValueError when the year leaves
\* the range of the C int tm_year (secs > 0x00F0C2AB7C54A97F).
gmtime(b) ==
  LET d1 == U16(SubSeq(b, 1, 2))
      d2 == U16(SubSeq(b, 3, 4))
      d3 == U16(SubSeq(b, 5, 6))
      d4 == U16(SubSeq(b, 7, 8))
      secs == d3 * 65536 + d4
  IN IF d1 = 0 /\ d2 = 0 /\ d3 < 32768
       THEN Ok(8, <<"struct_time", secs \div 86400, (secs % 86400) \div 3600,
                    (secs % 3600) \div 60, secs % 60, (secs \div 86400 + 3) % 7>>)
     ELSE IF \/ d1 > 240
             \/ d1 = 240 /\ d2 > 49835
             \/ d1 = 240 /\ d2 = 49835 /\ d3 > 31828
             \/ d1 = 240 /\ d2 = 49835 /\ d3 = 31828 /\ d4 > 43391
       THEN Exc("ValueError")
     ELSE Ok(8, <<"struct_time", d1, d2, d3, d4>>)

timestamp(value) ==
  IF ~UnpackOk(value, 8, 0) THEN Exc("struct.error")
  ELSE gmtime(UnpackBytes(value, 8, 0))

ScalarNames ==
  {"boolean", "decimal", "floating_point", "long_int", "long_long_int",
   "octet", "short_int", "short_string", "long_string", "timestamp"}

\* the call fn(value) of a scalar decoder
ScalarDecode(fn, value) ==
  CASE fn = "boolean"        -> boolean(value)
    [] fn = "decimal"        -> decimal(value)
    [] fn = "floating_point" -> floating_point(value)
    [] fn = "long_int"       -> long_int(value)
    [] fn = "long_long_int"  -> long_long_int(value)
    [] fn = "octet"          -> octet(value)
    [] fn = "short_int"      -> short_int(value)
    [] fn = "short_string"   -> short_string(value)
    [] fn = "long_string"    -> long_string(value)
    [] fn = "timestamp"      -> timestamp(value)

(***************************************************************************)
(* The tag table of _decode_value, the names of decode_by_type and the     *)
(* registry METHODS.                                                       *)
(***************************************************************************)
\* the if/elif chain on value[0]: 'A' 'D' 'f' 'F' 'I' 'L' 't' 'T' 's' 'S' 'U' '\x00'
TagDecoder(tag) ==
  CASE tag = 65  -> "field_array"
    [] tag = 68  -> "decimal"
    [] tag = 102 -> "floating_point"
    [] tag = 70  -> "field_table"
    [] tag = 73  -> "long_int"
    [] tag = 76  -> "long_long_int"
    [] tag = 116 -> "boolean"
    [] tag = 84  -> "timestamp"
    [] tag = 115 -> "short_string"
    [] tag = 83  -> "long_string"
    [] tag = 85  -> "short_int"
    [] tag = 0   -> "null"
    [] OTHER     -> "unknown"

\* mutant: decode_by_type follows the registry and takes 'octet' too
TypeDecoderWithOctet(name) ==
  CASE name = "bit"       -> "boolean"
    [] name = "long"      -> "long_int"
    [] name = "longlong"  -> "long_long_int"
    [] name = "longstr"   -> "long_string"
    [] name = "octet"     -> "octet"
    [] name = "short"     -> "short_int"
    [] name = "shortstr"  -> "short_string"
    [] name = "table"     -> "field_table"
    [] name = "timestamp" -> "timestamp"
    [] OTHER              -> "unknown"

\* the if/elif chain on data_type
TypeDecoder(name) ==
  CASE name = "bit"       -> "boolean"
    [] name = "long"      -> "long_int"
    [] name = "longlong"  -> "long_long_int"
    [] name = "longstr"   -> "long_string"
    [] name = "short"     -> "short_int"
    [] name = "shortstr"  -> "short_string"
    [] name = "table"     -> "field_table"
    [] name = "timestamp" -> "timestamp"
    [] OTHER              -> "unknown"

MethodNames ==
  {"bit", "long", "longlong", "longstr", "octet", "short", "shortstr",
   "table", "timestamp"}

METHODS(name) ==
  CASE name = "bit"       -> "boolean"
    [] name = "long"      -> "long_int"
    [] name = "longlong"  -> "long_long_int"
    [] name = "longstr"   -> "long_string"
    [] name = "octet"     -> "octet"
    [] name = "short"     -> "short_int"
    [] name = "shortstr"  -> "short_string"
    [] name = "table"     -> "field_table"
    [] name = "timestamp" -> "timestamp"

(***************************************************************************)
(* The decoders as functions of the view: what a call returns, Ok or Exc,  *)
(* or Diverged when `fuel` nested calls and loop iterations do not finish  *)
(* it.                                                                     *)
(***************************************************************************)
Diverged == <<"diverged">>

RECURSIVE EvalValue(_, _), EvalArrayLoop(_, _, _, _, _), EvalTableLoop(_, _, _, _, _)

\* field_array(value)
EvalArray(value, fuel) ==
  IF ~UnpackOk(value, 4, 0) THEN Exc("struct.error")
  ELSE EvalArrayLoop(value, 4, 4 + S32(UnpackBytes(value, 4, 0)), <<>>, fuel)

\* field_table(value)
EvalTable(value, fuel) ==
  IF ~UnpackOk(value, 4, 0) THEN Exc("struct.error")
  ELSE EvalTableLoop(value, 4, 4 + S32(UnpackBytes(value, 4, 0)), <<>>, fuel)

\* _decode_value(value)
EvalValue(value, fuel) ==
  IF fuel = 0 THEN Diverged
  ELSE IF value = <<>> THEN Exc("IndexError")
  ELSE LET fn   == TagDecoder(value[1])
           rest == PySlice(value, 1, Len(value))
           r    == CASE fn \in ScalarNames  -> ScalarDecode(fn, rest)
                     [] fn = "field_array" -> EvalArray(rest, fuel - 1)
                     [] fn = "field_table" -> EvalTable(rest, fuel - 1)
                     [] fn = "null"        -> Ok(0, PyNone)
                     [] OTHER              -> Exc("ValueError")
       IN IF IsOk(r) THEN Ok(r[2] + 1, r[3]) ELSE r

\* the while loop of field_array
EvalArrayLoop(value, offset, end, data, fuel) ==
  IF ~(offset < end) THEN Ok(end, PyList(data))
  ELSE IF fuel = 0 THEN Diverged
  ELSE LET r == EvalValue(PySlice(value, offset, Len(value)), fuel - 1)
       IN IF ~IsOk(r) THEN r
          ELSE EvalArrayLoop(value, offset + r[2], end, Append(data, r[3]), fuel - 1)

\* the while loop of field_table
EvalTableLoop(value, offset, end, data, fuel) ==
  IF ~(offset < end) THEN Ok(end, PyDict(data))
  ELSE IF fuel = 0 THEN Diverged
  ELSE IF ~UnpackOk(value, 1, offset) THEN Exc("struct.error")
  ELSE LET keysize == U8(UnpackBytes(value, 1, offset)) + 1
           key     == PySlice(value, offset + 1, offset + keysize)
           r       == EvalValue(PySlice(value, offset + keysize, Len(value)), fuel - 1)
       IN IF ~IsOk(r) THEN r
          ELSE EvalTableLoop(value, offset + keysize + r[2], end,
                             [k \in (DOMAIN data) \cup {key} |->
                                IF k = key THEN r[3] ELSE data[k]],
                             fuel - 1)

\* fn(value), for fn a scalar decoder, field_array or field_table
EvalDecoder(fn, value, fuel) ==
  CASE fn = "field_array" -> EvalArray(value, fuel)
    [] fn = "field_table" -> EvalTable(value, fuel)
    [] OTHER              -> ScalarDecode(fn, value)

\* enough for every call that ends within MaxIter loop iterations
EvalFuel == 3 * MaxIter + 4

(***************************************************************************)
(* The call stack.                                                         *)
(***************************************************************************)
NoResult == <<>>

\* a fresh activation of fn on the view buf[base:]
Frame(fn, base) ==
  [fn |-> fn, base |-> base, pc |-> "start", offset |-> 0, end |-> 0,
   data |-> <<>>, keysize |-> 0, key |-> <<>>, consumed |-> 0,
   result |-> PyNone]

Top == stack[Len(stack)]

\* the parameter `value` of a frame
View(f) == SubSeq(buf, f.base + 1, Len(buf))

Running == status = "running" /\ stack # <<>>

At(fn, pc) == Running /\ Top.fn = fn /\ Top.pc = pc

\* an exception: no frame of this module catches it
Raise(e) ==
  /\ stack' = <<>>
  /\ status' = "raised"
  /\ err' = e
  /\ UNCHANGED <<buf, op, dtype, result, iters>>

\* return c, v: to the caller's `consumed, result = ...`, or out of the call
Return(c, v) ==
  /\ IF Len(stack) = 1
       THEN /\ stack' = <<>>
            /\ status' = "returned"
            /\ result' = <<c, v>>
       ELSE /\ stack' = [SubSeq(stack, 1, Len(stack) - 1) EXCEPT
                           ![Len(stack) - 1] =
                             [@ EXCEPT !.pc = "got", !.consumed = c, !.result = v]]
            /\ UNCHANGED <<status, result>>
  /\ UNCHANGED <<buf, op, dtype, err, iters>>

\* the top frame becomes `caller` and calls fn on buf[base:]
Call(caller, fn, base) ==
  /\ stack' = Append([stack EXCEPT ![Len(stack)] = caller], Frame(fn, base))
  /\ UNCHANGED <<buf, op, dtype, status, err, result>>

\* the top frame moves on
Step(frame) ==
  /\ stack' = [stack EXCEPT ![Len(stack)] = frame]
  /\ UNCHANGED <<buf, op, dtype, status, err, result, iters>>

(***************************************************************************)
(* A scalar decoder called directly (or through METHODS).                  *)
(***************************************************************************)
ScalarCall ==
  /\ Running
  /\ Top.fn \in ScalarNames
  /\ LET r == ScalarDecode(Top.fn, View(Top))
     IN IF IsOk(r) THEN Return(r[2], r[3]) ELSE Raise(r[2])

(***************************************************************************)
(* _decode_value                                                           *)
(***************************************************************************)
\* mutant: the tag byte is not counted
TaggedReturnNoTag(consumed, res) == Return(consumed, res)

\* return consumed + 1, result
TaggedReturn(consumed, res) == Return(consumed + 1, res)

\* value[0] of an empty str
DecodeValueEmpty ==
  /\ At("_decode_value", "start")
  /\ View(Top) = <<>>
  /\ Raise("IndexError")

\* the tag of a scalar: the decoder runs on value[1:]
DecodeValueScalar ==
  /\ At("_decode_value", "start")
  /\ View(Top) # <<>>
  /\ TagDecoder(View(Top)[1]) \in ScalarNames
  /\ LET r == ScalarDecode(TagDecoder(View(Top)[1]), PySlice(View(Top), 1, Len(View(Top))))
     IN IF IsOk(r) THEN TaggedReturn(r[2], r[3]) ELSE Raise(r[2])

\* '\x00': consumed, result = 0, None
DecodeValueNull ==
  /\ At("_decode_value", "start")
  /\ View(Top) # <<>>
  /\ TagDecoder(View(Top)[1]) = "null"
  /\ TaggedReturn(0, PyNone)

\* mutant: a tag outside the table is taken for the null tag
DecodeValueUnknownAsNull ==
  /\ At("_decode_value", "start")
  /\ View(Top) # <<>>
  /\ TagDecoder(View(Top)[1]) = "unknown"
  /\ TaggedReturn(0, PyNone)

\* raise ValueError("Unknown type: %s", value[0])
DecodeValueUnknown ==
  /\ At("_decode_value", "start")
  /\ View(Top) # <<>>
  /\ TagDecoder(View(Top)[1]) = "unknown"
  /\ Raise("ValueError")

\* 'A' or 'F': field_array(value[1:]) or field_table(value[1:])
DecodeValueComposite ==
  /\ At("_decode_value", "start")
  /\ View(Top) # <<>>
  /\ TagDecoder(View(Top)[1]) \in {"field_array", "field_table"}
  /\ Call([Top EXCEPT !.pc = "called"], TagDecoder(View(Top)[1]), Top.base + 1)
  /\ UNCHANGED iters

DecodeValueReturn ==
  /\ At("_decode_value", "got")
  /\ TaggedReturn(Top.consumed, Top.result)

(***************************************************************************)
(* field_array                                                             *)
(***************************************************************************)
\* length = unpack_from('>l', value)[0]; offset = 4; data = list();
\* field_array_end = offset + length
ArrayStart ==
  /\ At("field_array", "start")
  /\ IF ~UnpackOk(View(Top), 4, 0) THEN Raise("struct.error")
     ELSE Step([Top EXCEPT !.pc = "loop", !.offset = 4, !.data = <<>>,
                           !.end = 4 + S32(UnpackBytes(View(Top), 4, 0))])

\* while offset < field_array_end: _decode_value(value[offset:])
ArrayCall ==
  /\ At("field_array", "loop")
  /\ Top.offset < Top.end
  /\ iters < MaxIter
  /\ iters' = iters + 1
  /\ Call([Top EXCEPT !.pc = "called"], "_decode_value",
          Top.base + SliceIndex(Len(View(Top)), Top.offset))

\* mutant: the element is put in front of the list
ArrayResumePrepend ==
  /\ At("field_array", "got")
  /\ Step([Top EXCEPT !.pc = "loop", !.offset = @ + Top.consumed,
                      !.data = <<Top.result>> \o @])

\* offset += consumed; data.append(result)
ArrayResume ==
  /\ At("field_array", "got")
  /\ Step([Top EXCEPT !.pc = "loop", !.offset = @ + Top.consumed,
                      !.data = Append(@, Top.result)])

\* return field_array_end, data
ArrayReturn ==
  /\ At("field_array", "loop")
  /\ ~(Top.offset < Top.end)
  /\ Return(Top.end, PyList(Top.data))

(***************************************************************************)
(* field_table                                                             *)
(***************************************************************************)
TableStart ==
  /\ At("field_table", "start")
  /\ IF ~UnpackOk(View(Top), 4, 0) THEN Raise("struct.error")
     ELSE Step([Top EXCEPT !.pc = "loop", !.offset = 4, !.data = <<>>,
                           !.end = 4 + S32(UnpackBytes(View(Top), 4, 0))])

\* mutant: the key slice starts at the length byte
TableCallKeyWithLength ==
  /\ At("field_table", "loop")
  /\ Top.offset < Top.end
  /\ iters < MaxIter
  /\ IF ~UnpackOk(View(Top), 1, Top.offset) THEN Raise("struct.error")
     ELSE LET keysize == U8(UnpackBytes(View(Top), 1, Top.offset)) + 1
              key     == PySlice(View(Top), Top.offset, Top.offset + keysize)
              offset  == Top.offset + keysize
          IN /\ iters' = iters + 1
             /\ Call([Top EXCEPT !.pc = "called", !.keysize = keysize, !.key = key,
                                 !.offset = offset],
                     "_decode_value",
                     Top.base + SliceIndex(Len(View(Top)), offset))

\* keysize = unpack_from('B', value, offset)[0] + 1;
\* key = value[offset + 1:offset + keysize]; offset += keysize;
\* _decode_value(value[offset:])
TableCall ==
  /\ At("field_table", "loop")
  /\ Top.offset < Top.end
  /\ iters < MaxIter
  /\ IF ~UnpackOk(View(Top), 1, Top.offset) THEN Raise("struct.error")
     ELSE LET keysize == U8(UnpackBytes(View(Top), 1, Top.offset)) + 1
              key     == PySlice(View(Top), Top.offset + 1, Top.offset + keysize)
              offset  == Top.offset + keysize
          IN /\ iters' = iters + 1
             /\ Call([Top EXCEPT !.pc = "called", !.keysize = keysize, !.key = key,
                                 !.offset = offset],
                     "_decode_value",
                     Top.base + SliceIndex(Len(View(Top)), offset))

\* mutant: a key already in the mapping keeps its value
DictSetFirstWins(data, key, res) ==
  [k \in (DOMAIN data) \cup {key} |-> IF k \in DOMAIN data THEN data[k] ELSE res]

\* data[key] = result
DictSet(data, key, res) ==
  [k \in (DOMAIN data) \cup {key} |-> IF k = key THEN res ELSE data[k]]

\* offset += consumed; data[key] = result
TableResume ==
  /\ At("field_table", "got")
  /\ Step([Top EXCEPT !.pc = "loop", !.offset = @ + Top.consumed,
                      !.data = DictSet(@, Top.key, Top.result)])

\* return field_table_end, data
TableReturn ==
  /\ At("field_table", "loop")
  /\ ~(Top.offset < Top.end)
  /\ Return(Top.end, PyDict(Top.data))

(***************************************************************************)
(* decode_by_type                                                          *)
(***************************************************************************)
DecodeByTypeScalar ==
  /\ At("decode_by_type", "start")
  /\ TypeDecoder(dtype) \in ScalarNames
  /\ LET r == ScalarDecode(TypeDecoder(dtype), View(Top))
     IN IF IsOk(r) THEN Return(r[2], r[3]) ELSE Raise(r[2])

DecodeByTypeTable ==
  /\ At("decode_by_type", "start")
  /\ TypeDecoder(dtype) = "field_table"
  /\ Call([Top EXCEPT !.pc = "called"], "field_table", Top.base)
  /\ UNCHANGED iters

\* raise ValueError("Unknown type: %s", value)
DecodeByTypeUnknown ==
  /\ At("decode_by_type", "start")
  /\ TypeDecoder(dtype) = "unknown"
  /\ Raise("ValueError")

\* return consumed, result
DecodeByTypeReturn ==
  /\ At("decode_by_type", "got")
  /\ Return(Top.consumed, Top.result)

Next ==
  \/ ScalarCall
  \/ DecodeValueEmpty
  \/ DecodeValueScalar
  \/ DecodeValueNull
  \/ DecodeValueUnknown
  \/ DecodeValueComposite
  \/ DecodeValueReturn
  \/ ArrayStart
  \/ ArrayCall
  \/ ArrayResume
  \/ ArrayReturn
  \/ TableStart
  \/ TableCall
  \/ TableResume
  \/ TableReturn
  \/ DecodeByTypeScalar
  \/ DecodeByTypeTable
  \/ DecodeByTypeUnknown
  \/ DecodeByTypeReturn

(***************************************************************************)
(* The inputs: buffers in the wire format the decoders read (spec section  *)
(* 6), well formed and not.                                                *)
(***************************************************************************)
\* a 4-byte big-endian two's complement length, -256 <= n < 65536
Len4(n) ==
  IF n >= 0 THEN <<0, 0, n \div 256, n % 256>> ELSE <<255, 255, 255, 256 + n>>

\* tagged scalars: null, 't' 1, 't' 0, 's' "a", 's' declaring 2 bytes and
\* holding 1, and the unknown tag 0x99
ScalarElems ==
  {<<0>>, <<116, 1>>, <<116, 0>>, <<115, 1, 97>>, <<115, 2, 97>>, <<153>>}

\* tagged composites: array and table headers (what follows the header is
\* its content, or not), a table {"a": true} and an array of one empty table
CompositeElems ==
  {<<65>> \o Len4(m) : m \in {-6, -5, 0, 2}}
    \cup {<<70>> \o Len4(m) : m \in {-5, 0}}
    \cup {<<70>> \o Len4(4) \o <<1, 97, 116, 1>>,
          <<65>> \o Len4(5) \o <<70>> \o Len4(0)}

Elems == ScalarElems \cup CompositeElems

\* table keys "a" and "b"
Keys == {<<1, 97>>, <<1, 98>>}

\* the values of table entries: null, 't' 1, the unknown tag, an array
\* header declaring -5, {"a": true} and the array of one empty table
EntryValues ==
  {<<0>>, <<116, 1>>, <<153>>, <<65>> \o Len4(-5),
   <<70>> \o Len4(4) \o <<1, 97, 116, 1>>,
   <<65>> \o Len4(5) \o <<70>> \o Len4(0)}

Entries == {k \o e : k \in Keys, e \in EntryValues}

\* the concatenations of at most k members of S
RECURSIVE Concats(_, _)
Concats(S, k) ==
  IF k = 0 THEN {<<>>}
  ELSE LET P == Concats(S, k - 1) IN P \cup {p \o x : p \in P, x \in S}

\* a length prefix and a body: the declared length is the body's, or off by
\* up to Slack
Prefixed(bodies) ==
  {Len4(Len(b) + d) \o b : b \in bodies, d \in -Slack..Slack}

\* a negative declared length and no body
NegativeBufs == {Len4(-n) : n \in 1..MaxNeg}

ArrayBufs == Prefixed(Concats(Elems, MaxElems)) \cup NegativeBufs

TableBufs == Prefixed(Concats(Entries, MaxElems)) \cup NegativeBufs

\* one tagged value of every scalar type: 't' true, 'I' 42, 'U' -2,
\* 'D' 12.34, 'f' 1.0, 'L' 2^32, 'T' 86400, 's' "ab", 'S' "ab", null, and the
\* unknown tag 0x99
TaggedScalars ==
  {<<116, 1>>, <<73, 0, 0, 0, 42>>, <<85, 255, 254>>, <<68, 2, 0, 0, 4, 210>>,
   <<102, 63, 128, 0, 0>>, <<76, 0, 0, 0, 1, 0, 0, 0, 0>>,
   <<84, 0, 0, 0, 0, 0, 1, 81, 128>>, <<115, 2, 97, 98>>,
   <<83, 0, 0, 0, 2, 97, 98>>, <<0>>, <<153>>}

\* every prefix of a member of S: the buffer cut short
Prefixes(S) == UNION {{SubSeq(b, 1, n) : n \in 0..Len(b)} : b \in S}

\* every buffer with its first byte removed: a payload without its tag
Untagged(S) == {SubSeq(b, 2, Len(b)) : b \in S \ {<<>>}}

TaggedBufs ==
  Prefixes(TaggedScalars)
    \cup {<<65>> \o b : b \in ArrayBufs}
    \cup {<<70>> \o b : b \in TableBufs}

PayloadBufs == Untagged(Prefixes(TaggedScalars))

\* the data_type names tried: the registry's, and two that are nowhere
TypeNames == MethodNames \cup {"decimal", "double"}

\* the calls made: (function, data_type, buffer)
Inputs ==
  {<<"_decode_value", "", b>> : b \in TaggedBufs}
    \cup {<<"field_array", "", b>> : b \in ArrayBufs}
    \cup {<<"field_table", "", b>> : b \in TableBufs}
    \cup {<<fn, "", b>> : fn \in ScalarNames, b \in PayloadBufs}
    \cup {<<"decode_by_type", "table", b>> : b \in TableBufs}
    \cup {<<"decode_by_type", t, b>> : t \in TypeNames \ {"table"}, b \in PayloadBufs}

Init ==
  \E i \in Inputs :
    /\ op = i[1]
    /\ dtype = i[2]
    /\ buf = i[3]
    /\ stack = <<Frame(i[1], 0)>>
    /\ status = "running"
    /\ err = ""
    /\ result = NoResult
    /\ iters = 0

Spec == Init /\ [][Next]_vars

(***************************************************************************)
(* The wire format (spec section 6): what a complete tagged value is.      *)
(***************************************************************************)
RECURSIVE WireLen(_), WireBodyOk(_, _), WireItems(_, _)

\* the bytes of a table entry's key and its length byte (none in an array)
WireKeyLen(body, keyed) == IF keyed THEN 1 + body[1] ELSE 0

\* the length of the complete tagged value at the head of s, or -1
WireLen(s) ==
  IF s = <<>> THEN -1
  ELSE LET n == Len(s)
           fixed(k) == IF n >= k THEN k ELSE -1
       IN CASE s[1] = 0   -> 1
            [] s[1] = 116 -> fixed(2)
            [] s[1] = 85  -> fixed(3)
            [] s[1] = 73  -> fixed(5)
            [] s[1] = 102 -> fixed(5)
            [] s[1] = 68  -> fixed(6)
            [] s[1] = 76  -> fixed(9)
            [] s[1] = 84  -> fixed(9)
            [] s[1] = 115 -> IF n >= 2 THEN fixed(2 + s[2]) ELSE -1
            [] s[1] = 83  -> IF n >= 5 /\ s[2] < 128
                               THEN fixed(5 + U32(SubSeq(s, 2, 5))) ELSE -1
            [] s[1] \in {65, 70} ->
                 IF n < 5 THEN -1
                 ELSE LET L == S32(SubSeq(s, 2, 5))
                      IN IF L >= 0 /\ n >= 5 + L
                            /\ WireBodyOk(SubSeq(s, 6, 5 + L), s[1] = 70)
                           THEN 5 + L ELSE -1
            [] OTHER -> -1

\* body is a concatenation of complete tagged values (keyed: of entries
\* [key length][key][tagged value])
WireBodyOk(body, keyed) ==
  \/ body = <<>>
  \/ LET k == WireKeyLen(body, keyed)
     IN /\ k < Len(body)
        /\ LET rest == SubSeq(body, k + 1, Len(body))
               w    == WireLen(rest)
           IN w > 0 /\ WireBodyOk(SubSeq(rest, w + 1, Len(rest)), keyed)

\* the <<key, tagged value>> pairs of such a body, in the buffer's order
WireItems(body, keyed) ==
  IF body = <<>> THEN <<>>
  ELSE LET k    == WireKeyLen(body, keyed)
           rest == SubSeq(body, k + 1, Len(body))
           w    == WireLen(rest)
       IN <<<<SubSeq(body, 2, k), SubSeq(rest, 1, w)>>>>
            \o WireItems(SubSeq(rest, w + 1, Len(rest)), keyed)

(***************************************************************************)
(* What the claims speak of.                                               *)
(***************************************************************************)
\* how the call ended
Outcome ==
  IF status = "returned" THEN Ok(result[1], result[2])
  ELSE IF status = "raised" THEN Exc(err)
  ELSE Diverged

Ended == status # "running"

\* the 4-byte length prefix L of the buffer
DeclaredLen == S32(SubSeq(buf, 1, 4))

\* the buffer is [L][L bytes that are complete tagged values (entries)]...
WellFormed(keyed) ==
  /\ Len(buf) >= 4
  /\ DeclaredLen >= 0
  /\ Len(buf) >= 4 + DeclaredLen
  /\ WireBodyOk(SubSeq(buf, 5, 4 + DeclaredLen), keyed)

Items(keyed) == WireItems(SubSeq(buf, 5, 4 + DeclaredLen), keyed)

\* a tagged value decoded on its own
Decoded(item) == EvalValue(item, EvalFuel)

AllDecode(items) == \A i \in 1..Len(items) : IsOk(Decoded(items[i][2]))

\* the mapping of the entries, the last entry of a key winning
LastWins(items) ==
  [k \in {items[i][1] : i \in 1..Len(items)} |->
     LET last == CHOOSE i \in 1..Len(items) :
                   /\ items[i][1] = k
                   /\ \A j \in (i + 1)..Len(items) : items[j][1] # k
     IN Decoded(items[last][2])[3]]

UnknownTagAtTop ==
  /\ At("_decode_value", "start")
  /\ View(Top) # <<>>
  /\ TagDecoder(View(Top)[1]) = "unknown"

EightNames ==
  {"bit", "long", "longlong", "longstr", "short", "shortstr", "table", "timestamp"}

(***************************************************************************)
(* The claims.                                                             *)
(***************************************************************************)
\* C1: on a buffer whose first byte is a recognized tag, _decode_value
\* returns (1 + c, v) for the (c, v) that the tag's decoder returns on the
\* buffer without its first byte (and raises what it raises); on the null
\* tag it returns (1, None).
C1_DispatchAddsTagByte ==
  (op = "_decode_value" /\ Ended /\ buf # <<>> /\ TagDecoder(buf[1]) # "unknown")
    => IF TagDecoder(buf[1]) = "null"
         THEN status = "returned" /\ result = <<1, PyNone>>
         ELSE LET r == EvalDecoder(TagDecoder(buf[1]), Tail(buf), EvalFuel)
              IN IF IsOk(r)
                   THEN status = "returned" /\ result = <<1 + r[2], r[3]>>
                   ELSE Outcome = r

\* C1 witness: a tagged array of two elements was decoded
C1_Witness ==
  /\ op = "_decode_value"
  /\ status = "returned"
  /\ buf[1] = 65
  /\ result[1] = 1 + 4 + S32(SubSeq(buf, 2, 5))
  /\ Len(result[2][2]) = 2

\* C2: an unknown tag byte makes _decode_value raise ValueError at once, at
\* any depth of nesting: the whole call ends raised, with no result and no
\* frame left to return a partial sequence or mapping.
C2_UnknownTagRaises ==
  /\ [](status = "raised" => result = NoResult /\ stack = <<>>)
  /\ [][UnknownTagAtTop =>
          /\ status' = "raised"
          /\ err' = "ValueError"
          /\ result' = NoResult
          /\ stack' = <<>>]_vars

\* C2 witness: the unknown tag is met two composites deep
C2_Witness == UnknownTagAtTop /\ Len(stack) >= 4

\* C3: field_array on [L][L bytes of complete tagged values] returns 4 + L
\* and the list of their decoded values, one per tagged value, in order.
C3_ArrayInOrder ==
  (op = "field_array" /\ Ended /\ WellFormed(FALSE) /\ AllDecode(Items(FALSE)))
    => /\ status = "returned"
       /\ result = <<4 + DeclaredLen,
                     PyList([i \in 1..Len(Items(FALSE)) |->
                               Decoded(Items(FALSE)[i][2])[3]])>>

\* C3 witness: two different elements were decoded
C3_Witness ==
  /\ op = "field_array"
  /\ status = "returned"
  /\ WellFormed(FALSE)
  /\ Len(Items(FALSE)) = 2
  /\ Items(FALSE)[1] # Items(FALSE)[2]
  /\ Len(result[2][2]) = 2

\* C4: field_table on [L][L bytes of complete entries] returns 4 + L and the
\* mapping whose keys are exactly the buffer's keys, each with the decoded
\* value of the last entry that carries it.
C4_TableLastWins ==
  (op = "field_table" /\ Ended /\ WellFormed(TRUE) /\ AllDecode(Items(TRUE)))
    => /\ status = "returned"
       /\ result = <<4 + DeclaredLen, PyDict(LastWins(Items(TRUE)))>>

\* C4 witness: a key was carried by two entries with different values
C4_Witness ==
  /\ op = "field_table"
  /\ status = "returned"
  /\ WellFormed(TRUE)
  /\ Len(Items(TRUE)) = 2
  /\ Items(TRUE)[1][1] = Items(TRUE)[2][1]
  /\ Items(TRUE)[1][2] # Items(TRUE)[2][2]

\* C5: a composite decoder whose offset has passed its boundary 4 + L,
\* because the last element decoded consumed more than was left, raises;
\* it does not return.
C5_OvershootRaises ==
  [][(/\ Running
      /\ Top.fn \in {"field_array", "field_table"}
      /\ Top.pc = "loop"
      /\ Top.data # <<>>
      /\ Top.offset > Top.end) => status' = "raised"]_vars

\* C6: no call returns a consumed count larger than the buffer it was
\* given, and short_string / long_string return as many bytes as their
\* length prefix declares.
C6_NoReadPastEnd ==
  status = "returned"
    => /\ result[1] <= Len(buf)
       /\ op = "short_string" => Len(result[2][2]) = result[1] - 1
       /\ op = "long_string" => Len(result[2][2]) = result[1] - 4

\* C7: every call that returns, returns a consumed count >= 1.
C7_ConsumedAtLeastOne == status = "returned" => result[1] >= 1

\* C8: decode_by_type(buffer, name) is METHODS[name](buffer) for the eight
\* names, no tag byte stripped; every other name, 'octet' too, raises
\* ValueError and returns nothing.
C8_TypedIsRegistry ==
  (op = "decode_by_type" /\ Ended)
    => IF dtype \in EightNames
         THEN Outcome = EvalDecoder(METHODS(dtype), buf, EvalFuel)
         ELSE status = "raised" /\ err = "ValueError" /\ result = NoResult

\* C8 witness: a table with an entry was decoded by name
C8_Witness ==
  /\ op = "decode_by_type"
  /\ dtype = "table"
  /\ status = "returned"
  /\ DOMAIN result[2][2] # {}

\* C9 as stated: _decode_value on 46 00 00 00 06 01 61 74 01 returns
\* (9, {"a": true}).
C9_SpecExample ==
  (op = "_decode_value" /\ buf = <<70, 0, 0, 0, 6, 1, 97, 116, 1>> /\ Ended)
    => /\ status = "returned"
       /\ result = <<9, PyDict(<<97>> :> PyBool(TRUE))>>

\* C9 amended: _decode_value on 46 00 00 00 04 01 61 74 01, the table
\* length being the 4 bytes that follow it, returns (9, {"a": true}); with
\* the declared length 6 the call raises struct.error.
C9_Example ==
  /\ (op = "_decode_value" /\ buf = <<70, 0, 0, 0, 4, 1, 97, 116, 1>> /\ Ended)
       => /\ status = "returned"
          /\ result = <<9, PyDict(<<97>> :> PyBool(TRUE))>>
  /\ (op = "_decode_value" /\ buf = <<70, 0, 0, 0, 6, 1, 97, 116, 1>> /\ Ended)
       => /\ status = "raised"
          /\ err = "struct.error"

\* C9 witness: the call on the amended buffer has returned
C9_Witness ==
  /\ op = "_decode_value"
  /\ buf = <<70, 0, 0, 0, 4, 1, 97, 116, 1>>
  /\ status = "returned"

\* C10: every iteration of the field_array and field_table loops strictly
\* increases the running offset.
C10_OffsetIncreases ==
  [][(Running /\ Top.fn \in {"field_array", "field_table"} /\ Top.pc = "got")
       => stack'[Len(stack)].offset > Top.offset - Top.keysize]_vars

====
